---- MODULE Spec2Model ----
(***************************************************************************)
(* Model of src/tl/types.rs of tonlib-rs: the InternalTransactionId text   *)
(* codec (from_str / from_lt_hash / to_string), the serde wire codec of    *)
(* the records and tagged unions, and the two lazy_static sentinels.       *)
(*                                                                         *)
(* Text is a sequence of one-character strings (all ASCII, so the byte     *)
(* length str::len() is the sequence length).  Bytes are 0..255.  An i64   *)
(* is [neg, mag] with mag its decimal digits, most significant first and   *)
(* without leading zeros, because the model checker's integers are 32 bits wide. *)
(***************************************************************************)
EXTENDS Integers, Sequences, FiniteSets, TLC

VARIABLES
    id,        \* the InternalTransactionId the caller holds
    text,      \* the string the caller holds
    origin,    \* how text was written from id (encoding, byte count, damage)
    result,    \* what the last call of from_str / from_lt_hash returned
    payload,   \* the JSON value handed to serde
    target,    \* the Rust type the payload is decoded as
    shape,     \* how payload was built (sample, fault)
    decoded,   \* what Deserialize returned
    encoded,   \* what Serialize returned for the decoded value
    nullTx,    \* lazy_static cell of NULL_TRANSACTION_ID
    nullBlk,   \* lazy_static cell of NULL_BLOCKS_ACCOUNT_TRANSACTION_ID
    pc,        \* per thread: where it is in a read of a sentinel
    seen       \* per thread: the value its last read returned

vars == <<id, text, origin, result, payload, target, shape, decoded, encoded,
          nullTx, nullBlk, pc, seen>>

idVars == <<id, text, origin, result>>
wireVars == <<payload, target, shape, decoded, encoded>>
staticVars == <<nullTx, nullBlk, pc, seen>>

-----------------------------------------------------------------------------
(* Program constants *)

HashLen == 32
HexTextLen == 64
PaddedTextLen == 44

(* Bounds of the model *)

MaxExtraColons == 2

-----------------------------------------------------------------------------
(* Characters *)

DigitChars == <<"0", "1", "2", "3", "4", "5", "6", "7", "8", "9">>

HexLower == <<"0", "1", "2", "3", "4", "5", "6", "7", "8", "9",
              "a", "b", "c", "d", "e", "f">>

HexUpper == <<"0", "1", "2", "3", "4", "5", "6", "7", "8", "9",
              "A", "B", "C", "D", "E", "F">>

Letters == <<"A", "B", "C", "D", "E", "F", "G", "H", "I", "J", "K", "L", "M",
             "N", "O", "P", "Q", "R", "S", "T", "U", "V", "W", "X", "Y", "Z",
             "a", "b", "c", "d", "e", "f", "g", "h", "i", "j", "k", "l", "m",
             "n", "o", "p", "q", "r", "s", "t", "u", "v", "w", "x", "y", "z">>

Range(f) == {f[i] : i \in DOMAIN f}

IndexOf(tbl, c) == CHOOSE i \in DOMAIN tbl : tbl[i] = c

Rep(c, n) == [i \in 1..n |-> c]

Contains(s, c) == \E i \in DOMAIN s : s[i] = c

\* CharacterSet::Standard and CharacterSet::UrlSafe of the base64 crate
Alphabet(char_set) ==
    Letters \o DigitChars
        \o (IF char_set = "UrlSafe" THEN <<"-", "_">> ELSE <<"+", "/">>)

-----------------------------------------------------------------------------
(* i64: FromStr and Display *)

I64(neg, mag) == [neg |-> neg, mag |-> mag]

I64MaxMag == <<9, 2, 2, 3, 3, 7, 2, 0, 3, 6, 8, 5, 4, 7, 7, 5, 8, 0, 7>>
I64MinMag == <<9, 2, 2, 3, 3, 7, 2, 0, 3, 6, 8, 5, 4, 7, 7, 5, 8, 0, 8>>

\* a <= b for digit sequences without leading zeros
MagLeq(a, b) ==
    \/ Len(a) < Len(b)
    \/ /\ Len(a) = Len(b)
       /\ \/ a = b
          \/ \E i \in 1..Len(a) :
                /\ a[i] < b[i]
                /\ \A j \in 1..(i - 1) : a[j] = b[j]

RECURSIVE StripZeros(_)
StripZeros(d) ==
    IF Len(d) > 1 /\ d[1] = 0 THEN StripZeros(Tail(d)) ELSE d

\* <i64 as FromStr>::from_str: an optional sign, then one or more decimal
\* digits, the value checked against the 64-bit range.
parse_i64(s) ==
    LET signed == Len(s) > 0 /\ s[1] \in {"+", "-"}
        neg    == Len(s) > 0 /\ s[1] = "-"
        digits == IF signed THEN Tail(s) ELSE s
    IN  IF Len(s) = 0 THEN [ok |-> FALSE, err |-> "Empty"]
        ELSE IF Len(digits) = 0 THEN [ok |-> FALSE, err |-> "InvalidDigit"]
        ELSE IF \E i \in DOMAIN digits : digits[i] \notin Range(DigitChars)
            THEN [ok |-> FALSE, err |-> "InvalidDigit"]
        ELSE LET mag == StripZeros([i \in DOMAIN digits |->
                                       IndexOf(DigitChars, digits[i]) - 1])
             IN  IF neg /\ ~MagLeq(mag, I64MinMag)
                     THEN [ok |-> FALSE, err |-> "NegOverflow"]
                 ELSE IF ~neg /\ ~MagLeq(mag, I64MaxMag)
                     THEN [ok |-> FALSE, err |-> "PosOverflow"]
                 ELSE [ok |-> TRUE, v |-> I64(neg /\ mag # <<0>>, mag)]

\* <i64 as Display>::fmt
format_i64(v) ==
    (IF v.neg THEN <<"-">> ELSE <<>>)
        \o [i \in DOMAIN v.mag |-> DigitChars[v.mag[i] + 1]]

-----------------------------------------------------------------------------
(* hex crate *)

HexVal(c) ==
    IF c \in Range(HexLower) THEN IndexOf(HexLower, c) - 1
    ELSE IF c \in Range(HexUpper) THEN IndexOf(HexUpper, c) - 1
    ELSE -1

hex_decode(s) ==
    IF Len(s) % 2 # 0 THEN [ok |-> FALSE, err |-> "InvalidHex"]
    ELSE IF \E i \in DOMAIN s : HexVal(s[i]) = -1
        THEN [ok |-> FALSE, err |-> "InvalidHex"]
    ELSE [ok |-> TRUE,
          bytes |-> [i \in 1..(Len(s) \div 2) |->
                        16 * HexVal(s[2 * i - 1]) + HexVal(s[2 * i])]]

hex_encode(b) ==
    [i \in 1..(2 * Len(b)) |->
        HexLower[(IF i % 2 = 1 THEN b[(i + 1) \div 2] \div 16
                  ELSE b[i \div 2] % 16) + 1]]

-----------------------------------------------------------------------------
(* base64 crate *)

B64Val(char_set, c) ==
    IF c \in Range(Alphabet(char_set)) THEN IndexOf(Alphabet(char_set), c) - 1
    ELSE -1

\* Number of characters before the first '='
SymbolCount(s) ==
    IF Contains(s, "=")
    THEN (CHOOSE i \in DOMAIN s : s[i] = "=" /\ \A j \in 1..(i - 1) : s[j] # "=") - 1
    ELSE Len(s)

\* base64::decode_config(input, Config::new(char_set, pad)).  The decoder of
\* this API generation does not read `pad`: it takes '=' only as a suffix
\* inside the last quad, at offsets 2 and 3, and takes its absence too;
\* trailing bits must be zero (decode_allow_trailing_bits is false).
base64_decode_config(s, char_set, pad) ==
    LET n == Len(s)
        m == SymbolCount(s)
        v == [i \in 1..m |-> B64Val(char_set, s[i])]
        outLen == (m * 6) \div 8
        byteAt(j) ==
            LET bit == 8 * (j - 1)
                q   == bit \div 6 + 1
                r   == bit % 6
            IN  IF r = 0 THEN v[q] * 4 + v[q + 1] \div 16
                ELSE IF r = 2 THEN (v[q] % 16) * 16 + v[q + 1] \div 4
                ELSE (v[q] % 4) * 64 + v[q + 1]
    IN  IF n % 4 = 1 THEN [ok |-> FALSE, err |-> "InvalidBase64"]
        ELSE IF \E i \in 1..m : v[i] = -1
            THEN [ok |-> FALSE, err |-> "InvalidBase64"]
        ELSE IF \E i \in (m + 1)..n : s[i] # "=" \/ (i - 1) % 4 < 2
            THEN [ok |-> FALSE, err |-> "InvalidBase64"]
        ELSE IF (m % 4 = 2 /\ v[m] % 16 # 0) \/ (m % 4 = 3 /\ v[m] % 4 # 0)
            THEN [ok |-> FALSE, err |-> "InvalidBase64"]
        ELSE [ok |-> TRUE, bytes |-> [j \in 1..outLen |-> byteAt(j)]]

\* base64::encode_config(bytes, Config::new(char_set, pad))
base64_encode_config(b, char_set, pad) ==
    LET len == Len(b)
        m == (len * 8 + 5) \div 6
        at(k) == IF k <= len THEN b[k] ELSE 0
        sym(i) ==
            LET bit == 6 * (i - 1)
                p   == bit \div 8 + 1
                off == bit % 8
            IN  IF off = 0 THEN at(p) \div 4
                ELSE IF off = 6 THEN (at(p) % 4) * 16 + at(p + 1) \div 16
                ELSE IF off = 4 THEN (at(p) % 16) * 4 + at(p + 1) \div 64
                ELSE at(p) % 64
    IN  [i \in 1..m |-> Alphabet(char_set)[sym(i) + 1]]
            \o (IF pad THEN Rep("=", (4 - (m % 4)) % 4) ELSE <<>>)

-----------------------------------------------------------------------------
(* InternalTransactionId *)

InternalTransactionId(lt, hash) == [lt |-> lt, hash |-> hash]

Ok(v) == [tag |-> "Ok", id |-> v]
Err(kind) == [tag |-> "Err", err |-> kind]
Panic == [tag |-> "Panic"]

\* from_lt_hash choosing the URL-safe alphabet only when both '-' and '_' occur
from_lt_hash_both(lt, hash_str) ==
    LET hash ==
            IF Len(hash_str) = HexTextLen
            THEN hex_decode(hash_str)
            ELSE LET char_set ==
                         IF Contains(hash_str, "-") /\ Contains(hash_str, "_")
                         THEN "UrlSafe" ELSE "Standard"
                     pad == Len(hash_str) = PaddedTextLen
                 IN  base64_decode_config(hash_str, char_set, pad)
    IN  IF ~hash.ok THEN Err(hash.err)
        ELSE IF Len(hash.bytes) # HashLen THEN Err("InvalidHashLength")
        ELSE Ok(InternalTransactionId(lt, hash.bytes))

\* from_lt_hash taking every text of 64 characters or more as hex
from_lt_hash_geq(lt, hash_str) ==
    LET hash ==
            IF Len(hash_str) >= HexTextLen
            THEN hex_decode(hash_str)
            ELSE LET char_set ==
                         IF Contains(hash_str, "-") \/ Contains(hash_str, "_")
                         THEN "UrlSafe" ELSE "Standard"
                     pad == Len(hash_str) = PaddedTextLen
                 IN  base64_decode_config(hash_str, char_set, pad)
    IN  IF ~hash.ok THEN Err(hash.err)
        ELSE IF Len(hash.bytes) # HashLen THEN Err("InvalidHashLength")
        ELSE Ok(InternalTransactionId(lt, hash.bytes))

\* from_lt_hash without the test of the decoded length
from_lt_hash_anylen(lt, hash_str) ==
    LET hash ==
            IF Len(hash_str) = HexTextLen
            THEN hex_decode(hash_str)
            ELSE LET char_set ==
                         IF Contains(hash_str, "-") \/ Contains(hash_str, "_")
                         THEN "UrlSafe" ELSE "Standard"
                     pad == Len(hash_str) = PaddedTextLen
                 IN  base64_decode_config(hash_str, char_set, pad)
    IN  IF ~hash.ok THEN Err(hash.err)
        ELSE Ok(InternalTransactionId(lt, hash.bytes))

\* InternalTransactionId::from_lt_hash
from_lt_hash(lt, hash_str) ==
    LET hash ==
            IF Len(hash_str) = HexTextLen
            THEN hex_decode(hash_str)
            ELSE LET char_set ==
                         IF Contains(hash_str, "-") \/ Contains(hash_str, "_")
                         THEN "UrlSafe" ELSE "Standard"
                     pad == Len(hash_str) = PaddedTextLen
                 IN  base64_decode_config(hash_str, char_set, pad)
    IN  IF ~hash.ok THEN Err(hash.err)
        ELSE IF Len(hash.bytes) # HashLen THEN Err("InvalidHashLength")
        ELSE Ok(InternalTransactionId(lt, hash.bytes))

\* hash_string writing each byte with "{:x}", without the leading zero
RECURSIVE HexUnpadded(_)
HexUnpadded(b) ==
    IF b = <<>> THEN <<>>
    ELSE (IF b[1] < 16 THEN <<HexLower[b[1] + 1]>> ELSE hex_encode(<<b[1]>>))
             \o HexUnpadded(Tail(b))

hash_string_unpadded(self) == HexUnpadded(self.hash)

\* InternalTransactionId::hash_string
hash_string(self) == hex_encode(self.hash)

\* InternalTransactionId::to_string, which Display and Debug write out
to_string(self) == format_i64(self.lt) \o <<":">> \o hash_string(self)

\* str::split(":").collect::<Vec<_>>()
RECURSIVE split(_, _)
split(s, sep) ==
    IF ~Contains(s, sep) THEN <<s>>
    ELSE LET i == CHOOSE k \in DOMAIN s :
                      s[k] = sep /\ \A j \in 1..(k - 1) : s[j] # sep
         IN  <<SubSeq(s, 1, i - 1)>> \o split(SubSeq(s, i + 1, Len(s)), sep)

\* The length test letting every text of two parts or more through
BadPartCount_less(parts) == Len(parts) < 2

\* The length test of from_str on the split parts
BadPartCount(parts) == Len(parts) # 2

\* <InternalTransactionId as FromStr>::from_str.  parts[0] and parts[1] are
\* parts[1] and parts[2] here; an index past the end is a panic.
from_str(s) ==
    LET parts == split(s, ":")
    IN  IF BadPartCount(parts) THEN Err("MalformedFormat")
        ELSE IF Len(parts) < 2 THEN Panic
        ELSE LET lt == parse_i64(parts[1])
             IN  IF ~lt.ok THEN Err("InvalidLogicalTime")
                 ELSE LET r == from_lt_hash(lt.v, parts[2])
                      IN  IF r.tag = "Ok" THEN r ELSE Err(r.err)

-----------------------------------------------------------------------------
(* Inputs of the text codec *)

Byte == 0..255

\* The hash of the tests of types.rs (b98dfa03...d615a3)
TestHash ==
    <<185, 141, 250, 3, 58, 150, 63, 59, 185, 152, 95, 23, 62, 242, 198, 201,
      68, 155, 231, 138, 4, 62, 193, 252, 89, 101, 254, 36, 166, 214, 21, 163>>

ZeroHash == Rep(0, HashLen)
OnesHash == Rep(255, HashLen)
StepHash == [i \in 1..HashLen |-> (i * 37) % 256]

TestLt == I64(FALSE, <<3, 3, 2, 5, 6, 2, 1, 1, 0, 0, 0, 0, 0, 3>>)
ZeroLt == I64(FALSE, <<0>>)

SampleIds ==
    { InternalTransactionId(TestLt, TestHash),
      InternalTransactionId(ZeroLt, ZeroHash),
      InternalTransactionId(I64(TRUE, <<1>>), OnesHash),
      InternalTransactionId(I64(FALSE, I64MaxMag), StepHash),
      InternalTransactionId(I64(TRUE, I64MinMag), TestHash),
      InternalTransactionId(I64(FALSE, <<5>>), OnesHash),
      InternalTransactionId(I64(TRUE, <<4, 2>>), ZeroHash) }

Encodings == {"hex", "HEX", "b64", "b64_nopad", "url", "url_nopad"}

UpperHex(s) ==
    [i \in DOMAIN s |-> HexUpper[IndexOf(HexLower, s[i])]]

\* The hash text a producer writes for the bytes b
EncodeHash(enc, b) ==
    CASE enc = "hex"       -> hex_encode(b)
      [] enc = "HEX"       -> UpperHex(hex_encode(b))
      [] enc = "b64"       -> base64_encode_config(b, "Standard", TRUE)
      [] enc = "b64_nopad" -> base64_encode_config(b, "Standard", FALSE)
      [] enc = "url"       -> base64_encode_config(b, "UrlSafe", TRUE)
      [] enc = "url_nopad" -> base64_encode_config(b, "UrlSafe", FALSE)

\* b cut to one byte less, or grown by the byte 0xB4
Resize(b, n) ==
    IF n < Len(b) THEN SubSeq(b, 1, n)
    ELSE b \o Rep(180, n - Len(b))

ByteCounts == {HashLen - 1, HashLen, HashLen + 1}

FirstColon(t) ==
    CHOOSE k \in DOMAIN t : t[k] = ":" /\ \A j \in 1..(k - 1) : t[j] # ":"

LtPart(t) == SubSeq(t, 1, FirstColon(t) - 1)
FromColon(t) == SubSeq(t, FirstColon(t), Len(t))

\* Damage done to the hash end of a text
NoDamage == <<"none", 0>>

HashDamages ==
    {<<d, 0>> : d \in {"append_Z", "append_space", "append_B4", "append_pad",
                       "drop_symbol", "drop_byte", "last_is_g", "last_is_dash",
                       "first_is_space"}}

\* Damage done to the numeric part or to the separator of "<lt>:<hash>"
LtDamages ==
    {<<d, 0>> : d \in {"lt_prefix_z", "lt_suffix_a", "lt_space", "lt_empty",
                       "lt_overflow", "lt_underflow", "lt_plus", "lt_zero",
                       "no_colon", "trailing_colon"}}

ColonDamages == {<<"extra_colons", k>> : k \in 1..MaxExtraColons}

Damaged(d, t) ==
    CASE d[1] = "append_Z"       -> t \o <<"Z">>
      [] d[1] = "append_space"   -> t \o <<" ">>
      [] d[1] = "append_B4"      -> t \o <<"B", "4">>
      [] d[1] = "append_pad"     -> t \o <<"=">>
      [] d[1] = "drop_symbol"    -> SubSeq(t, 1, Len(t) - 1)
      [] d[1] = "drop_byte"      -> SubSeq(t, 1, Len(t) - 2)
      [] d[1] = "last_is_g"      -> SubSeq(t, 1, Len(t) - 1) \o <<"g">>
      [] d[1] = "last_is_dash"   -> SubSeq(t, 1, Len(t) - 1) \o <<"-">>
      [] d[1] = "first_is_space" -> <<" ">> \o Tail(t)
      [] d[1] = "lt_prefix_z"    -> <<"z">> \o t
      [] d[1] = "lt_suffix_a"    -> LtPart(t) \o <<"a">> \o FromColon(t)
      [] d[1] = "lt_space"       -> <<" ">> \o t
      [] d[1] = "lt_empty"       -> FromColon(t)
      [] d[1] = "lt_overflow"    ->
            format_i64(I64(FALSE, I64MinMag)) \o FromColon(t)
      [] d[1] = "lt_underflow"   ->
            <<"-">> \o format_i64(I64(FALSE, I64MaxMag)) \o <<"0">> \o FromColon(t)
      [] d[1] = "lt_plus"        -> <<"+">> \o t
      [] d[1] = "lt_zero"        -> <<"0">> \o t
      [] d[1] = "no_colon"       -> LtPart(t) \o Tail(FromColon(t))
      [] d[1] = "trailing_colon" -> t \o <<":">>
      [] d[1] = "extra_colons" ->
            LtPart(t) \o Rep(":", d[2]) \o FromColon(t)

NoOrigin == [enc |-> "none", len |-> 0, full |-> FALSE, dmg |-> NoDamage]
IdleOrigin == [enc |-> "idle", len |-> 0, full |-> FALSE, dmg |-> NoDamage]
NoResult == [fn |-> "none"]

-----------------------------------------------------------------------------
(* The text codec at work *)

IdleWire ==
    /\ payload = [t |-> "null"]
    /\ target = [k |-> "idle"]
    /\ shape = [sample |-> 0, fault |-> <<"none", 0>>, extra |-> 0]
    /\ decoded = [done |-> FALSE]
    /\ encoded = [done |-> FALSE]

IdleStatics ==
    /\ nullTx = [state |-> "uninit"]
    /\ nullBlk = [state |-> "uninit"]
    /\ pc = <<>>
    /\ seen = <<>>

IdleId ==
    /\ id = InternalTransactionId(ZeroLt, <<>>)
    /\ text = <<>>
    /\ origin = IdleOrigin
    /\ result = NoResult

InitId ==
    /\ id \in SampleIds
    /\ text = <<>>
    /\ origin = NoOrigin
    /\ result = NoResult
    /\ IdleWire
    /\ IdleStatics

\* The caller formats the id it holds: id.to_string() / format!("{}", id)
Display ==
    /\ origin.enc # "idle"
    /\ text' = to_string(id)
    /\ origin' = [enc |-> "display", len |-> HashLen, full |-> TRUE, dmg |-> NoDamage]
    /\ result' = NoResult
    /\ UNCHANGED <<id, wireVars, staticVars>>

\* A producer writes the id, or its hash alone, in one of its encodings
Write(enc, n, full) ==
    /\ origin.enc # "idle"
    /\ text' = (IF full THEN format_i64(id.lt) \o <<":">> ELSE <<>>)
                   \o EncodeHash(enc, Resize(id.hash, n))
    /\ origin' = [enc |-> enc, len |-> n, full |-> full, dmg |-> NoDamage]
    /\ result' = NoResult
    /\ UNCHANGED <<id, wireVars, staticVars>>

\* The text is damaged on its way to the parser
Damage(d) ==
    /\ origin.enc \notin {"idle", "none"}
    /\ origin.dmg = NoDamage
    /\ origin.len = HashLen
    /\ d \in LtDamages \cup ColonDamages => origin.full
    /\ text' = Damaged(d, text)
    /\ origin' = [origin EXCEPT !.dmg = d]
    /\ result' = NoResult
    /\ UNCHANGED <<id, wireVars, staticVars>>

\* text.parse::<InternalTransactionId>()
FromStr ==
    /\ origin.enc \notin {"idle", "none"}
    /\ result' = [fn |-> "from_str", ret |-> from_str(text)]
    /\ UNCHANGED <<id, text, origin, wireVars, staticVars>>

\* InternalTransactionId::from_lt_hash(id.lt, text)
FromLtHash ==
    /\ origin.enc \notin {"idle", "none"}
    /\ result' = [fn |-> "from_lt_hash", ret |-> from_lt_hash(id.lt, text)]
    /\ UNCHANGED <<id, text, origin, wireVars, staticVars>>

NextId ==
    \/ Display
    \/ \E enc \in Encodings, n \in ByteCounts, full \in BOOLEAN : Write(enc, n, full)
    \/ \E d \in HashDamages \cup LtDamages \cup ColonDamages : Damage(d)
    \/ FromStr
    \/ FromLtHash

SpecId == InitId /\ [][NextId]_vars

-----------------------------------------------------------------------------
(* Properties of the text codec *)

ColonCount(t) == Cardinality({i \in DOMAIN t : t[i] = ":"})

HashPart(t) == Tail(FromColon(t))

LowerHex(s) ==
    [i \in DOMAIN s |->
        IF s[i] \in Range(HexUpper) THEN HexLower[IndexOf(HexUpper, s[i])] ELSE s[i]]

\* C1: parsing the string that to_string / Display wrote for an id with a
\* 32-byte hash and any i64 lt succeeds and gives back that id.
C1_ParseOfToString ==
    (origin.enc = "display" /\ origin.dmg = NoDamage /\ result.fn = "from_str")
        => result.ret = Ok(id)

C1_Witness ==
    /\ origin.enc = "display"
    /\ origin.dmg = NoDamage
    /\ result.fn = "from_str"
    /\ result.ret.tag = "Ok"
    /\ id.lt = I64(TRUE, I64MinMag)

\* C2: "<lt>:<text>" with text the hash in any accepted encoding (hex of
\* either case, base64 padded or not, standard or URL-safe) parses to the
\* one id (lt, hash), and to_string of it is "<lt>:<lowercase hex>".
C2_EncodingAmnesic ==
    (/\ origin.enc \in Encodings
     /\ origin.len = HashLen
     /\ origin.full
     /\ origin.dmg = NoDamage
     /\ result.fn = "from_str")
        => /\ result.ret = Ok(id)
           /\ LET t == to_string(result.ret.id)
              IN  /\ ColonCount(t) = 1
                  /\ LtPart(t) = format_i64(id.lt)
                  /\ Len(HashPart(t)) = HexTextLen
                  /\ \A i \in DOMAIN HashPart(t) : HashPart(t)[i] \in Range(HexLower)
                  /\ HashPart(t) = LowerHex(EncodeHash("HEX", id.hash))

C2_Witness ==
    /\ origin.enc = "url_nopad"
    /\ origin.len = HashLen
    /\ origin.full
    /\ origin.dmg = NoDamage
    /\ Contains(text, "-")
    /\ ~Contains(text, "_")
    /\ result.fn = "from_str"
    /\ result.ret.tag = "Ok"

\* C3: from_str returns the MalformedFormat error for every text with no
\* colon or with two or more colons, and only a text with exactly one colon
\* goes on to the decoding of the logical time and of the hash.
C3_ExactlyOneColon ==
    result.fn = "from_str"
        => IF ColonCount(text) # 1
           THEN result.ret = Err("MalformedFormat")
           ELSE \/ result.ret.tag = "Ok"
                \/ /\ result.ret.tag = "Err"
                   /\ result.ret.err \in {"InvalidLogicalTime", "InvalidHex",
                                          "InvalidBase64", "InvalidHashLength"}

C3_Witness ==
    /\ result.fn = "from_str"
    /\ origin.dmg[1] = "extra_colons"
    /\ ColonCount(text) >= 2
    /\ result.ret = Err("MalformedFormat")

\* The texts the selection rule of C5 accepts as base64: 43 symbols of the
\* alphabet with no bits beyond the 32nd byte, followed by '=' exactly when
\* padding is expected.
WellFormedBase64(s, char_set, pad) ==
    LET m == PaddedTextLen - 1
    IN  /\ Len(s) = (IF pad THEN m + 1 ELSE m)
        /\ pad => s[m + 1] = "="
        /\ \A i \in 1..m : s[i] \in Range(Alphabet(char_set))
        /\ (IndexOf(Alphabet(char_set), s[m]) - 1) % 4 = 0

\* C5: from_lt_hash picks the decoder from the text alone: 64 characters
\* are hex and nothing else; any other length is base64, URL-safe if the
\* text has '-' or '_' and standard if not, padded if and only if the length
\* is 44; the id is returned only if that decoder gives exactly 32 bytes.
C5_DecoderSelection ==
    result.fn = "from_lt_hash"
        => LET r == result.ret
               url == Contains(text, "-") \/ Contains(text, "_")
               char_set == IF url THEN "UrlSafe" ELSE "Standard"
               pad == Len(text) = PaddedTextLen
           IN  IF Len(text) = HexTextLen
               THEN IF \A i \in DOMAIN text :
                           text[i] \in Range(HexLower) \cup Range(HexUpper)
                    THEN /\ r.tag = "Ok"
                         /\ r.id.lt = id.lt
                         /\ Len(r.id.hash) = HashLen
                         /\ hex_encode(r.id.hash) = LowerHex(text)
                    ELSE r = Err("InvalidHex")
               ELSE IF WellFormedBase64(text, char_set, pad)
                    THEN /\ r.tag = "Ok"
                         /\ r.id.lt = id.lt
                         /\ Len(r.id.hash) = HashLen
                         /\ base64_encode_config(r.id.hash, char_set, pad) = text
                    ELSE /\ r.tag = "Err"
                         /\ r.err \in {"InvalidBase64", "InvalidHashLength"}

C5_Witness ==
    /\ result.fn = "from_lt_hash"
    /\ Len(text) = PaddedTextLen
    /\ Contains(text, "_")
    /\ result.ret.tag = "Ok"
    /\ result.ret.id.hash = OnesHash

\* The malformed inputs C6 lists
C6Damages ==
    {<<d, 0>> : d \in {"lt_prefix_z", "lt_suffix_a", "lt_space", "lt_empty",
                       "lt_overflow", "lt_underflow", "append_Z", "append_B4",
                       "append_space"}}

\* C6: from_str returns an error, and no id, for a text whose numeric part
\* is no base-10 i64 (other characters, no digits, out of range), whose hash
\* part holds 31 or 33 bytes, or whose hash part carries a stray extra
\* character (a symbol, a hex byte, a space).
C6_MalformedFails ==
    (/\ result.fn = "from_str"
     /\ origin.full
     /\ \/ origin.len # HashLen /\ origin.dmg = NoDamage
        \/ origin.dmg \in C6Damages)
        => /\ result.ret.tag = "Err"
           /\ DOMAIN result.ret = {"tag", "err"}

C6_Witness ==
    /\ result.fn = "from_str"
    /\ origin.full
    /\ origin.enc = "b64"
    /\ origin.len = HashLen + 1
    /\ Len(HashPart(text)) = PaddedTextLen
    /\ result.ret = Err("InvalidHashLength")

-----------------------------------------------------------------------------
(* JSON values and Rust types *)

\* A JSON string is a sequence of pieces: a text the codec scans is given
\* character by character, a name that is only compared is given whole.
JInt(v) == [t |-> "int", v |-> v]
JFloat == [t |-> "float"]
JStr(s) == [t |-> "str", s |-> s]
JBool(b) == [t |-> "bool", b |-> b]
JNull == [t |-> "null"]
JArr(a) == [t |-> "arr", a |-> a]
JObj(e) == [t |-> "obj", e |-> e]
Pair(k, v) == [k |-> k, v |-> v]

TI64Flex == [k |-> "i64flex"]
TI64 == [k |-> "i64"]
\* A collaborator's value (TvmStack), embedded as it arrives
TOpaque == [k |-> "opaque"]
TI32 == [k |-> "i32"]
TBool == [k |-> "bool"]
TString == [k |-> "string"]
TBytes == [k |-> "bytes"]
TStruct(n) == [k |-> "struct", n |-> n]
TEnum(n) == [k |-> "enum", n |-> n]
TVec(ty) == [k |-> "vec", of |-> ty]
TOption(ty) == [k |-> "option", of |-> ty]

None == [some |-> FALSE]
Some(v) == [some |-> TRUE, v |-> v]

Decoded(v) == [ok |-> TRUE, v |-> v]
Failed(kind) == [ok |-> FALSE, err |-> kind]

I32MaxMag == <<2, 1, 4, 7, 4, 8, 3, 6, 4, 7>>
I32MinMag == <<2, 1, 4, 7, 4, 8, 3, 6, 4, 8>>

InI64(v) == MagLeq(v.mag, IF v.neg THEN I64MinMag ELSE I64MaxMag)
InI32(v) == MagLeq(v.mag, IF v.neg THEN I32MinMag ELSE I32MaxMag)

\* A field of a struct or of a variant: its Rust name, its name on the wire
\* (serde rename) and its type with its codec (deserialize_with / with)
Field(rust, wire, ty) == [rust |-> rust, wire |-> wire, ty |-> ty]
F(name, ty) == Field(name, name, ty)
Variant(name, tag, fields) == [name |-> name, tag |-> tag, fields |-> fields]

StructFields(n) ==
    CASE n = "InternalTransactionId" ->
            <<F("lt", TI64Flex), F("hash", TBytes)>>
      [] n = "AccountAddress" ->
            <<F("account_address", TString)>>
      [] n = "BlockId" ->
            <<F("workchain", TI32), F("shard", TI64Flex), F("seqno", TI32)>>
      [] n = "RawMessage" ->
            <<F("source", TStruct("AccountAddress")),
              F("destination", TStruct("AccountAddress")),
              F("value", TI64Flex), F("fwd_fee", TI64Flex),
              F("ihr_fee", TI64Flex), F("created_lt", TI64Flex),
              F("body_hash", TBytes), F("msg_data", TEnum("MsgData"))>>
      [] n = "RawTransaction" ->
            <<F("utime", TI64Flex), F("data", TBytes),
              F("transaction_id", TStruct("InternalTransactionId")),
              F("storage_fee", TI64Flex), F("other_fee", TI64Flex),
              F("in_msg", TOption(TStruct("RawMessage"))),
              F("out_msgs", TVec(TStruct("RawMessage")))>>
      [] n = "RawTransactions" ->
            <<F("transactions", TVec(TStruct("RawTransaction"))),
              F("previous_transaction_id", TStruct("InternalTransactionId"))>>
      [] n = "PChanConfig" ->
            <<F("alice_public_key", TString),
              F("alice_address", TStruct("AccountAddress")),
              F("bob_public_key", TString),
              F("bob_address", TStruct("AccountAddress")),
              F("init_timeout", TI32), F("close_timeout", TI32),
              F("channel_id", TI64)>>
      [] n = "RWalletLimit" ->
            <<F("seconds", TI32), F("value", TI64Flex)>>
      [] n = "RWalletConfig" ->
            <<F("start_at", TI64Flex),
              F("limits", TVec(TStruct("RWalletLimit")))>>
      [] n = "SmcRunResult" ->
            <<F("gas_used", TI64), F("stack", TOpaque), F("exit_code", TI32)>>

\* PChanState with the serde renames of its fields left out
PChanFields_unrenamed ==
    <<F("signed_a", TBool), F("signed_b", TBool), F("min_a", TI64),
      F("min_b", TI64), F("expire_at", TI64), F("a", TI64), F("b", TI64)>>

\* The seven fields of PChanState::Init and PChanState::Close
PChanFields ==
    <<Field("signed_a", "signed_A", TBool), Field("signed_b", "signed_B", TBool),
      Field("min_a", "min_A", TI64), Field("min_b", "min_B", TI64),
      F("expire_at", TI64),
      Field("a", "A", TI64), Field("b", "B", TI64)>>

EnumVariants(n) ==
    CASE n = "KeyStoreType" ->
            <<Variant("Directory", "keyStoreTypeDirectory",
                      <<F("directory", TString)>>),
              Variant("InMemory", "keyStoreTypeInMemory", <<>>)>>
      [] n = "AccountState" ->
            <<Variant("Raw", "raw.accountState",
                      <<F("code", TBytes), F("data", TBytes),
                        F("frozen_hash", TBytes)>>),
              Variant("WalletV3", "wallet.v3.accountState",
                      <<F("wallet_id", TI64Flex), F("seqno", TI32)>>),
              Variant("WalletHighloadV1", "wallet.highload.v1.accountState",
                      <<F("wallet_id", TI64Flex), F("seqno", TI32)>>),
              Variant("WalletHighloadV2", "wallet.highload.v2.accountState",
                      <<F("wallet_id", TI64Flex)>>),
              Variant("DNS", "dns.accountState",
                      <<F("wallet_id", TI64Flex)>>),
              Variant("RWallet", "rwallet.accountState",
                      <<F("wallet_id", TI64Flex), F("seqno", TI32),
                        F("unlocked_balance", TI64Flex),
                        F("config", TStruct("RWalletConfig"))>>),
              Variant("Uninited", "uninited.accountState",
                      <<F("frozen_hash", TBytes)>>),
              Variant("PChan", "pchan.accountState",
                      <<F("config", TStruct("PChanConfig")),
                        F("state", TEnum("PChanState")),
                        F("description", TString)>>)>>
      [] n = "PChanState" ->
            <<Variant("Init", "pchan.stateInit", PChanFields),
              Variant("Close", "pchan.stateClose", PChanFields),
              Variant("Payout", "pchan.statePayout",
                      <<Field("a", "A", TI64), Field("b", "B", TI64)>>)>>
      [] n = "SyncState" ->
            <<Variant("Done", "syncStateDone", <<>>),
              Variant("InProgress", "syncStateInProgress",
                      <<F("from_seqno", TI32), F("to_seqno", TI32),
                        F("current_seqno", TI32)>>)>>
      [] n = "MsgData" ->
            <<Variant("Raw", "msg.dataRaw",
                      <<F("body", TBytes), F("init_state", TBytes)>>),
              Variant("Text", "msg.dataText", <<F("text", TBytes)>>),
              Variant("DecryptedText", "msg.dataDecryptedText",
                      <<F("text", TBytes)>>),
              Variant("EncryptedText", "msg.dataEncryptedText",
                      <<F("text", TBytes)>>)>>
      [] n = "SmcMethodId" ->
            <<Variant("Number", "smc.methodIdNumber", <<F("number", TI32)>>),
              Variant("Name", "smc.methodIdName", <<F("name", TString)>>)>>

Structs ==
    {"InternalTransactionId", "AccountAddress", "BlockId", "RawMessage",
     "RawTransaction", "RawTransactions", "PChanConfig", "RWalletLimit",
     "RWalletConfig", "SmcRunResult"}

Unions ==
    {"KeyStoreType", "AccountState", "PChanState", "SyncState", "MsgData",
     "SmcMethodId"}

\* The discriminator key of #[serde(tag = "@type")]
TagKey == "@type"

-----------------------------------------------------------------------------
(* serde: Deserialize and Serialize *)

\* deserialize_number_from_string taking the native number alone
deserialize_number_only(j) ==
    IF j.t = "int" /\ InI64(j.v) THEN Decoded(j.v) ELSE Failed("InvalidNumber")

\* serde_aux::deserialize_number_from_string::<i64>: an untagged
\* String-or-Number; the string goes through str::parse::<i64>()
deserialize_number_from_string(j) ==
    IF j.t = "str"
    THEN LET r == parse_i64(j.s)
         IN  IF r.ok THEN Decoded(r.v) ELSE Failed("InvalidNumber")
    ELSE IF j.t = "int" /\ InI64(j.v) THEN Decoded(j.v)
    ELSE Failed("InvalidNumber")

\* An i64 visitor that takes the quoted decimal as well
deserialize_i64_or_string(j) == deserialize_number_from_string(j)

\* <i64 as Deserialize>::deserialize, of a field with no deserialize_with:
\* visit_i64 / visit_u64 alone, a string is an invalid type
deserialize_i64(j) ==
    IF j.t = "int" /\ InI64(j.v) THEN Decoded(j.v) ELSE Failed("InvalidType")

\* Base64Standard::deserialize (padded, standard alphabet)
Base64Standard_deserialize(j) ==
    IF j.t # "str" THEN Failed("InvalidType")
    ELSE LET r == base64_decode_config(j.s, "Standard", TRUE)
         IN  IF r.ok THEN Decoded(r.bytes) ELSE Failed("InvalidBase64")

\* Base64Standard::serialize
Base64Standard_serialize(b) == JStr(base64_encode_config(b, "Standard", TRUE))

Min(S) == CHOOSE x \in S : \A y \in S : x <= y

EntryOf(e, k) == e[CHOOSE i \in DOMAIN e : e[i].k = k]
HasKey(e, k) == \E i \in DOMAIN e : e[i].k = k
Keys(e) == {e[i].k : i \in DOMAIN e}

\* A derived visitor that takes Default::default() for a field the map lacks
FieldRequired_default(f) == FALSE

\* What a derived struct visitor requires of a field the map lacks
FieldRequired(f) == f.ty.k # "option"

RECURSIVE Deserialize(_, _)

\* visit_map of a derived struct (or struct variant): the entries in their
\* order, an undeclared key skipped, a repeated key an error, the first
\* failing value ending the decoding; then the fields the map lacks
DeserializeFields(fs, e) ==
    LET wires == {fs[i].wire : i \in DOMAIN fs}
        fieldOf(k) == fs[CHOOSE i \in DOMAIN fs : fs[i].wire = k]
        byRust(r) == fs[CHOOSE i \in DOMAIN fs : fs[i].rust = r]
        errAt(i) ==
            IF e[i].k \notin wires THEN ""
            ELSE IF \E j \in 1..(i - 1) : e[j].k = e[i].k THEN "DuplicateField"
            ELSE LET r == Deserialize(fieldOf(e[i].k).ty, e[i].v)
                 IN  IF r.ok THEN "" ELSE r.err
        bad == {i \in DOMAIN e : errAt(i) # ""}
        valueOf(f) ==
            IF HasKey(e, f.wire)
            THEN Deserialize(f.ty, EntryOf(e, f.wire).v).v
            ELSE None
    IN  IF bad # {} THEN Failed(errAt(Min(bad)))
        ELSE IF \E i \in DOMAIN fs : ~HasKey(e, fs[i].wire) /\ FieldRequired(fs[i])
            THEN Failed("MissingField")
        ELSE Decoded([r \in {fs[i].rust : i \in DOMAIN fs} |-> valueOf(byRust(r))])

\* An enum with #[serde(tag = "@type")]: the tag is looked up among the
\* entries and names the variant, the other entries are the variant's map.
\* (A tag that is no string is not drawn by the inputs.)
DeserializeEnum(n, j) ==
    IF j.t # "obj" THEN Failed("InvalidType")
    ELSE
    LET e == j.e
        vs == EnumVariants(n)
        tags == {i \in DOMAIN e : e[i].k = TagKey}
        known(v) == v.t = "str" /\ \E i \in DOMAIN vs : v.s = <<vs[i].tag>>
        rest == SelectSeq(e, LAMBDA x : x.k # TagKey)
    IN  IF tags = {} THEN Failed("MissingField")
        ELSE LET tag == e[Min(tags)].v
             IN  IF tag.t # "str" THEN Failed("InvalidType")
                 ELSE IF ~known(tag) THEN Failed("UnknownDiscriminator")
                 ELSE IF Cardinality(tags) > 1 THEN Failed("DuplicateField")
                 ELSE LET v == vs[CHOOSE i \in DOMAIN vs : tag.s = <<vs[i].tag>>]
                          r == DeserializeFields(v.fields, rest)
                      IN  IF r.ok
                          THEN Decoded([variant |-> v.name, fields |-> r.v])
                          ELSE r

Deserialize(ty, j) ==
    CASE ty.k = "i64flex" -> deserialize_number_from_string(j)
      [] ty.k = "i64" -> deserialize_i64(j)
      [] ty.k = "opaque" -> Decoded(j)
      [] ty.k = "i32" ->
            IF j.t = "int" /\ InI32(j.v) THEN Decoded(j.v) ELSE Failed("InvalidType")
      [] ty.k = "bool" ->
            IF j.t = "bool" THEN Decoded(j.b) ELSE Failed("InvalidType")
      [] ty.k = "string" ->
            IF j.t = "str" THEN Decoded(j.s) ELSE Failed("InvalidType")
      [] ty.k = "bytes" -> Base64Standard_deserialize(j)
      [] ty.k = "option" ->
            IF j.t = "null" THEN Decoded(None)
            ELSE LET r == Deserialize(ty.of, j)
                 IN  IF r.ok THEN Decoded(Some(r.v)) ELSE r
      [] ty.k = "vec" ->
            IF j.t # "arr" THEN Failed("InvalidType")
            ELSE LET bad == {i \in DOMAIN j.a : ~Deserialize(ty.of, j.a[i]).ok}
                 IN  IF bad # {} THEN Deserialize(ty.of, j.a[Min(bad)])
                     ELSE Decoded([i \in DOMAIN j.a |-> Deserialize(ty.of, j.a[i]).v])
      [] ty.k = "struct" ->
            IF j.t # "obj" THEN Failed("InvalidType")
            ELSE DeserializeFields(StructFields(ty.n), j.e)
      [] ty.k = "enum" -> DeserializeEnum(ty.n, j)

\* The JSON value Serialize writes for an i64 or i32: the native number
SerializeNumber(v) == JInt(v)

\* A serializer that quotes the number
SerializeNumber_quoted(v) == JStr(format_i64(v))

RECURSIVE Serialize(_, _)

\* The entries of a derived struct: its fields in their order under their
\* wire names; in_msg, the one Option, is skipped when None
SerializeFields(fs, val) ==
    LET kept == SelectSeq([i \in DOMAIN fs |-> i],
                          LAMBDA i : ~(fs[i].ty.k = "option" /\ ~val[fs[i].rust].some))
    IN  [x \in DOMAIN kept |->
            Pair(fs[kept[x]].wire, Serialize(fs[kept[x]].ty, val[fs[kept[x]].rust]))]

Serialize(ty, v) ==
    CASE ty.k \in {"i64flex", "i64", "i32"} -> SerializeNumber(v)
      [] ty.k = "bool" -> JBool(v)
      [] ty.k = "string" -> JStr(v)
      [] ty.k = "bytes" -> Base64Standard_serialize(v)
      [] ty.k = "opaque" -> v
      [] ty.k = "option" -> IF v.some THEN Serialize(ty.of, v.v) ELSE JNull
      [] ty.k = "vec" -> JArr([i \in DOMAIN v |-> Serialize(ty.of, v[i])])
      [] ty.k = "struct" -> JObj(SerializeFields(StructFields(ty.n), v))
      [] ty.k = "enum" ->
            LET vs == EnumVariants(ty.n)
                var == vs[CHOOSE i \in DOMAIN vs : vs[i].name = v.variant]
            IN  JObj(<<Pair(TagKey, JStr(<<var.tag>>))>>
                         \o SerializeFields(var.fields, v.fields))

-----------------------------------------------------------------------------
(* Payloads a producer sends *)

MaxUnknownFields == 2

RECURSIVE NatDigits(_)
NatDigits(n) == IF n < 10 THEN <<n>> ELSE NatDigits(n \div 10) \o <<n % 10>>

Num(n) == IF n < 0 THEN I64(TRUE, NatDigits(-n)) ELSE I64(FALSE, NatDigits(n))

S(name) == JStr(<<name>>)
N(n) == JInt(Num(n))
Blob(bytes) == JStr(base64_encode_config(bytes, "Standard", TRUE))

I64Max == I64(FALSE, I64MaxMag)
I64Min == I64(TRUE, I64MinMag)

Address(a) ==
    JObj(<<Pair(TagKey, S("accountAddress")), Pair("account_address", S(a))>>)

TxId(lt, hash) ==
    JObj(<<Pair(TagKey, S("internal.transactionId")),
           Pair("lt", JInt(lt)), Pair("hash", Blob(hash))>>)

PChanStateJson(tag) ==
    JObj(<<Pair(TagKey, S(tag)),
           Pair("signed_A", JBool(TRUE)), Pair("signed_B", JBool(FALSE)),
           Pair("min_A", N(10)), Pair("min_B", N(20)),
           Pair("expire_at", N(1700000000)),
           Pair("A", N(12345)), Pair("B", JInt(I64Max))>>)

PChanConfigJson ==
    JObj(<<Pair(TagKey, S("pchan.config")),
           Pair("alice_public_key", S("Pua...")),
           Pair("alice_address", Address("EQA...")),
           Pair("bob_public_key", S("Pub...")),
           Pair("bob_address", Address("EQB...")),
           Pair("init_timeout", N(3600)), Pair("close_timeout", N(7200)),
           Pair("channel_id", N(77))>>)

RWalletConfigJson ==
    JObj(<<Pair("start_at", N(1600000000)),
           Pair("limits",
                JArr(<<JObj(<<Pair("seconds", N(60)), Pair("value", N(12345))>>),
                       JObj(<<Pair("seconds", N(3600)),
                              Pair("value", JStr(format_i64(I64Max)))>>)>>))>>)

MsgTextJson ==
    JObj(<<Pair(TagKey, S("msg.dataText")), Pair("text", Blob(<<104, 105>>))>>)

RawMessageJson ==
    JObj(<<Pair(TagKey, S("raw.message")),
           Pair("source", Address("EQA...")),
           Pair("destination", Address("EQB...")),
           Pair("value", N(12345)), Pair("fwd_fee", N(0)),
           Pair("ihr_fee", N(-1)), Pair("created_lt", JInt(TestLt)),
           Pair("body_hash", Blob(TestHash)),
           Pair("msg_data", MsgTextJson)>>)

RawTransactionJson(hash) ==
    JObj(<<Pair("utime", N(1700000000)), Pair("data", Blob(<<1, 2, 3>>)),
           Pair("transaction_id", TxId(TestLt, hash)),
           Pair("storage_fee", N(7)), Pair("other_fee", N(9)),
           Pair("out_msgs", JArr(<<RawMessageJson>>))>>)

Sample(ty, variant, json) == [target |-> ty, variant |-> variant, json |-> json]

\* A hash of three bytes, which a producer can put on the wire
ShortHash == <<0, 0, 0>>

StructSamples ==
    <<Sample(TStruct("InternalTransactionId"), "", TxId(TestLt, TestHash)),
      Sample(TStruct("InternalTransactionId"), "", TxId(I64Min, ZeroHash)),
      Sample(TStruct("InternalTransactionId"), "", TxId(ZeroLt, ShortHash)),
      Sample(TStruct("InternalTransactionId"), "",
             TxId(I64Max, Resize(TestHash, HashLen + 1))),
      Sample(TStruct("BlockId"), "",
             JObj(<<Pair("workchain", N(-1)), Pair("shard", JInt(I64Min)),
                    Pair("seqno", N(123))>>)),
      Sample(TStruct("BlockId"), "",
             JObj(<<Pair("workchain", N(0)), Pair("shard", N(12345)),
                    Pair("seqno", N(2147483647))>>)),
      Sample(TStruct("RWalletLimit"), "",
             JObj(<<Pair("seconds", N(60)), Pair("value", N(-12345))>>)),
      Sample(TStruct("RawMessage"), "", RawMessageJson),
      Sample(TStruct("RawTransaction"), "", RawTransactionJson(StepHash)),
      Sample(TStruct("RawTransactions"), "",
             JObj(<<Pair("transactions", JArr(<<RawTransactionJson(TestHash)>>)),
                    Pair("previous_transaction_id", TxId(ZeroLt, ZeroHash))>>)),
      Sample(TStruct("RawTransactions"), "",
             JObj(<<Pair("transactions", JArr(<<RawTransactionJson(ShortHash)>>)),
                    Pair("previous_transaction_id", TxId(ZeroLt, ZeroHash))>>))>>

\* One payload for each variant of each union, under the names of tonlib_api.tl
UnionSamples ==
    <<Sample(TEnum("KeyStoreType"), "Directory",
             JObj(<<Pair(TagKey, S("keyStoreTypeDirectory")),
                    Pair("directory", S("./keys"))>>)),
      Sample(TEnum("KeyStoreType"), "InMemory",
             JObj(<<Pair(TagKey, S("keyStoreTypeInMemory"))>>)),
      Sample(TEnum("AccountState"), "Raw",
             JObj(<<Pair(TagKey, S("raw.accountState")),
                    Pair("code", Blob(<<255, 0>>)), Pair("data", Blob(<<>>)),
                    Pair("frozen_hash", Blob(ZeroHash))>>)),
      Sample(TEnum("AccountState"), "WalletV3",
             JObj(<<Pair(TagKey, S("wallet.v3.accountState")),
                    Pair("wallet_id", N(698983191)), Pair("seqno", N(5))>>)),
      Sample(TEnum("AccountState"), "WalletHighloadV1",
             JObj(<<Pair(TagKey, S("wallet.highload.v1.accountState")),
                    Pair("wallet_id", N(1)), Pair("seqno", N(0))>>)),
      Sample(TEnum("AccountState"), "WalletHighloadV2",
             JObj(<<Pair(TagKey, S("wallet.highload.v2.accountState")),
                    Pair("wallet_id", JInt(I64Max))>>)),
      Sample(TEnum("AccountState"), "DNS",
             JObj(<<Pair(TagKey, S("dns.accountState")),
                    Pair("wallet_id", N(-3))>>)),
      Sample(TEnum("AccountState"), "RWallet",
             JObj(<<Pair(TagKey, S("rwallet.accountState")),
                    Pair("wallet_id", N(2)), Pair("seqno", N(1)),
                    Pair("unlocked_balance", N(1000000000)),
                    Pair("config", RWalletConfigJson)>>)),
      Sample(TEnum("AccountState"), "Uninited",
             JObj(<<Pair(TagKey, S("uninited.accountState")),
                    Pair("frozen_hash", Blob(<<>>))>>)),
      Sample(TEnum("AccountState"), "PChan",
             JObj(<<Pair(TagKey, S("pchan.accountState")),
                    Pair("config", PChanConfigJson),
                    Pair("state", PChanStateJson("pchan.stateClose")),
                    Pair("description", S("channel"))>>)),
      Sample(TEnum("PChanState"), "Init", PChanStateJson("pchan.stateInit")),
      Sample(TEnum("PChanState"), "Close", PChanStateJson("pchan.stateClose")),
      Sample(TEnum("PChanState"), "Payout",
             JObj(<<Pair(TagKey, S("pchan.statePayout")),
                    Pair("A", N(1)), Pair("B", N(-2))>>)),
      Sample(TEnum("SyncState"), "Done",
             JObj(<<Pair(TagKey, S("syncStateDone"))>>)),
      Sample(TEnum("SyncState"), "InProgress",
             JObj(<<Pair(TagKey, S("syncStateInProgress")),
                    Pair("from_seqno", N(1)), Pair("to_seqno", N(100)),
                    Pair("current_seqno", N(42))>>)),
      Sample(TEnum("MsgData"), "Raw",
             JObj(<<Pair(TagKey, S("msg.dataRaw")),
                    Pair("body", Blob(<<1, 2, 3, 4>>)),
                    Pair("init_state", Blob(<<>>))>>)),
      Sample(TEnum("MsgData"), "Text", MsgTextJson),
      Sample(TEnum("MsgData"), "DecryptedText",
             JObj(<<Pair(TagKey, S("msg.dataDecryptedText")),
                    Pair("text", Blob(<<111, 107>>))>>)),
      Sample(TEnum("MsgData"), "EncryptedText",
             JObj(<<Pair(TagKey, S("msg.dataEncryptedText")),
                    Pair("text", Blob(<<250, 251, 252>>))>>)),
      Sample(TEnum("SmcMethodId"), "Number",
             JObj(<<Pair(TagKey, S("smc.methodIdNumber")),
                    Pair("number", N(85143))>>)),
      Sample(TEnum("SmcMethodId"), "Name",
             JObj(<<Pair(TagKey, S("smc.methodIdName")),
                    Pair("name", S("seqno"))>>))>>

\* Records with an i64 field that has no deserialize_with, sent on their
\* own, and the same value in a field that has one
PlainSamples ==
    <<Sample(TStruct("PChanConfig"), "", PChanConfigJson),
      Sample(TStruct("SmcRunResult"), "",
             JObj(<<Pair(TagKey, S("smc.runResult")),
                    Pair("gas_used", N(12345)),
                    Pair("stack", JArr(<<S("tvm.stackEntryNumber")>>)),
                    Pair("exit_code", N(0))>>)),
      Sample(TStruct("RWalletLimit"), "",
             JObj(<<Pair("seconds", N(3600)), Pair("value", N(12345))>>))>>

Samples == StructSamples \o UnionSamples \o PlainSamples

-----------------------------------------------------------------------------
(* The wire codec at work *)

NoFault == <<"none", 0>>

NumberFaults == {"quote", "quote_garbled", "quote_too_big", "too_big", "float"}

UnknownKeys == <<"@extra", "unknown_field", "x", "y">>

\* The payload with its top-level entry i changed
Faulted(f, j) ==
    LET e == j.e
        i == f[2]
        put(v) == JObj([e EXCEPT ![i] = Pair(e[i].k, v)])
    IN  CASE f[1] = "drop" ->
                JObj(SubSeq(e, 1, i - 1) \o SubSeq(e, i + 1, Len(e)))
          [] f[1] = "repeat" -> JObj(e \o <<e[i]>>)
          [] f[1] = "quote" -> put(JStr(format_i64(e[i].v.v)))
          [] f[1] = "quote_garbled" -> put(JStr(format_i64(e[i].v.v) \o <<"a">>))
          [] f[1] = "quote_too_big" -> put(JStr(format_i64(I64(FALSE, I64MinMag))))
          [] f[1] = "too_big" -> put(JInt(I64(FALSE, I64MinMag)))
          [] f[1] = "float" -> put(JFloat)
          [] f[1] = "unknown_tag" -> put(S("no.suchType"))
          [] f[1] = "foreign_tag" ->
                put(IF e[i].v.s[1] \in {"syncStateDone", "syncStateInProgress"}
                    THEN S("msg.dataText") ELSE S("syncStateDone"))

FaultApplies(f, j) ==
    /\ f[2] \in DOMAIN j.e
    /\ f[1] \in NumberFaults => j.e[f[2]].v.t = "int"
    /\ f[1] \in {"unknown_tag", "foreign_tag"} => j.e[f[2]].k = TagKey

Faults ==
    {<<n, i>> : n \in NumberFaults \cup {"drop", "repeat", "unknown_tag", "foreign_tag"},
                i \in 1..9}

InitWire ==
    /\ payload = JNull
    /\ target = [k |-> "none"]
    /\ shape = [sample |-> 0, fault |-> NoFault, extra |-> 0]
    /\ decoded = [done |-> FALSE]
    /\ encoded = [done |-> FALSE]
    /\ IdleId
    /\ IdleStatics

\* A payload arrives, to be decoded as the type it was sent for
Receive(i) ==
    /\ target.k # "idle"
    /\ payload' = Samples[i].json
    /\ target' = Samples[i].target
    /\ shape' = [sample |-> i, fault |-> NoFault, extra |-> 0]
    /\ decoded' = [done |-> FALSE]
    /\ encoded' = [done |-> FALSE]
    /\ UNCHANGED <<idVars, staticVars>>

\* The producer sends something else in one top-level entry
Fault(f) ==
    /\ shape.sample > 0
    /\ shape.fault = NoFault
    /\ shape.extra = 0
    /\ FaultApplies(f, payload)
    /\ payload' = Faulted(f, payload)
    /\ shape' = [shape EXCEPT !.fault = f]
    /\ decoded' = [done |-> FALSE]
    /\ encoded' = [done |-> FALSE]
    /\ UNCHANGED <<target, idVars, staticVars>>

\* The producer adds an entry no type declares, in front or at the end
AddUnknown ==
    /\ shape.sample > 0
    /\ shape.extra < MaxUnknownFields
    /\ LET entry == Pair(UnknownKeys[shape.extra + 1], S("1"))
       IN  payload' = JObj(IF shape.extra % 2 = 0
                           THEN <<entry>> \o payload.e
                           ELSE payload.e \o <<entry>>)
    /\ shape' = [shape EXCEPT !.extra = @ + 1]
    /\ decoded' = [done |-> FALSE]
    /\ encoded' = [done |-> FALSE]
    /\ UNCHANGED <<target, idVars, staticVars>>

\* serde_json::from_value::<target>(payload)
Decode ==
    /\ shape.sample > 0
    /\ decoded' = [done |-> TRUE, r |-> Deserialize(target, payload)]
    /\ encoded' = [done |-> FALSE]
    /\ UNCHANGED <<payload, target, shape, idVars, staticVars>>

\* serde_json::to_value(&value) of the decoded value
Encode ==
    /\ decoded.done
    /\ decoded.r.ok
    /\ encoded' = [done |-> TRUE, j |-> Serialize(target, decoded.r.v)]
    /\ UNCHANGED <<payload, target, shape, decoded, idVars, staticVars>>

NextWire ==
    \/ \E i \in DOMAIN Samples : Receive(i)
    \/ \E f \in Faults : Fault(f)
    \/ AddUnknown
    \/ Decode
    \/ Encode

SpecWire == InitWire /\ [][NextWire]_vars

-----------------------------------------------------------------------------
(* Properties of the wire codec *)

\* The payload as the producer first sent it
Pristine == Samples[shape.sample].json

\* The declared fields of the value the payload was sent as
TopFields ==
    IF target.k = "struct" THEN StructFields(target.n)
    ELSE LET vs == EnumVariants(target.n)
         IN  vs[CHOOSE i \in DOMAIN vs : vs[i].name = Samples[shape.sample].variant].fields

Declared(key) == \E i \in DOMAIN TopFields : TopFields[i].wire = key
FieldOfKey(key) == TopFields[CHOOSE i \in DOMAIN TopFields : TopFields[i].wire = key]

\* The top-level entry the fault changed, as first sent
FaultedEntry == Pristine.e[shape.fault[2]]

FaultOnFlex ==
    /\ shape.sample > 0
    /\ shape.fault # NoFault
    /\ Declared(FaultedEntry.k)
    /\ FieldOfKey(FaultedEntry.k).ty.k = "i64flex"

\* The fields of a decoded struct or of a decoded variant
FieldsOf(v) == IF target.k = "enum" THEN v.fields ELSE v

\* The InternalTransactionId values inside a decoded value
IdsOf(ty, v) ==
    CASE ty.k = "struct" /\ ty.n = "InternalTransactionId" -> {v}
      [] ty.k = "struct" /\ ty.n = "RawTransaction" -> {v.transaction_id}
      [] ty.k = "struct" /\ ty.n = "RawTransactions" ->
            {v.previous_transaction_id}
                \cup {v.transactions[i].transaction_id : i \in DOMAIN v.transactions}
      [] OTHER -> {}

\* C4: every id that results from decoding, by from_str, by from_lt_hash or
\* from a wire record, has a hash of exactly 32 bytes.
C4_HashAlways32 ==
    /\ (result.fn # "none" /\ result.ret.tag = "Ok")
           => Len(result.ret.id.hash) = HashLen
    /\ (decoded.done /\ decoded.r.ok)
           => \A x \in IdsOf(target, decoded.r.v) : Len(x.hash) = HashLen

\* C7: a large-integer field decodes the quoted decimal string of n to the
\* value the native number n decodes to; a string that is no base-10 i64, a
\* number out of range or a number that is no integer makes the decoding
\* fail; and encoding writes the field as a native number, never as a string.
C7_NumberOrString ==
    (FaultOnFlex /\ decoded.done)
        => /\ shape.fault[1] = "quote"
                => /\ decoded.r.ok
                   /\ decoded.r = Deserialize(target, Pristine)
                   /\ FieldsOf(decoded.r.v)[FieldOfKey(FaultedEntry.k).rust]
                          = FaultedEntry.v.v
           /\ shape.fault[1] \in {"quote_garbled", "quote_too_big", "too_big", "float"}
                => decoded.r = Failed("InvalidNumber")
           /\ (encoded.done /\ shape.fault[1] = "quote")
                => /\ EntryOf(encoded.j.e, FaultedEntry.k).v = FaultedEntry.v
                   /\ EntryOf(encoded.j.e, FaultedEntry.k).v.t = "int"

C7_Witness ==
    /\ FaultOnFlex
    /\ shape.fault[1] = "quote"
    /\ FaultedEntry.v.v = I64Min
    /\ EntryOf(payload.e, FaultedEntry.k).v.t = "str"
    /\ decoded.done
    /\ decoded.r.ok
    /\ encoded.done

AllTags == UNION {{<<u, EnumVariants(u)[i].tag>> : i \in DOMAIN EnumVariants(u)} : u \in Unions}

\* C8: a payload whose "@type" is the string of variant V decodes to V and
\* to no other variant (the strings differ pairwise); encoding the decoded
\* value writes the same "@type" and the same set of field names, the
\* payment-channel names signed_A, signed_B, min_A, min_B, A, B included.
C8_UnionRoundTrip ==
    /\ \A x, y \in AllTags : x[2] = y[2] => x = y
    /\ (/\ shape.sample > 0
        /\ target.k = "enum"
        /\ shape.fault = NoFault
        /\ shape.extra = 0
        /\ decoded.done)
           => /\ decoded.r.ok
              /\ decoded.r.v.variant = Samples[shape.sample].variant
              /\ encoded.done
                    => /\ EntryOf(encoded.j.e, TagKey) = EntryOf(payload.e, TagKey)
                       /\ Keys(encoded.j.e) = Keys(payload.e)
                       /\ (target.n = "PChanState" /\ decoded.r.v.variant # "Payout")
                             => Keys(encoded.j.e) =
                                    {"@type", "signed_A", "signed_B", "min_A",
                                     "min_B", "expire_at", "A", "B"}

C8_Witness ==
    /\ shape.sample > 0
    /\ target = TEnum("PChanState")
    /\ shape.fault = NoFault
    /\ shape.extra = 0
    /\ decoded.done
    /\ decoded.r.ok
    /\ decoded.r.v.variant = "Init"
    /\ encoded.done
    /\ HasKey(encoded.j.e, "signed_A")

\* C9: decoding a union fails with UnknownDiscriminator when "@type" is none
\* of the union's strings and with MissingField when a field of the variant
\* is absent, and then returns no value; an entry the variant does not
\* declare is ignored and changes nothing.
C9_UnionFailsLoudly ==
    (shape.sample > 0 /\ target.k = "enum" /\ decoded.done)
        => /\ shape.fault[1] \in {"unknown_tag", "foreign_tag"}
                => decoded.r = Failed("UnknownDiscriminator")
           /\ (shape.fault[1] = "drop" /\ Declared(FaultedEntry.k))
                => decoded.r = Failed("MissingField")
           /\ ~decoded.r.ok => DOMAIN decoded.r = {"ok", "err"}
           /\ (shape.fault = NoFault /\ shape.extra > 0)
                => /\ decoded.r.ok
                   /\ decoded.r = Deserialize(target, Pristine)

C9_Witness ==
    /\ shape.sample > 0
    /\ target.k = "enum"
    /\ shape.fault[1] = "drop"
    /\ Declared(FaultedEntry.k)
    /\ shape.extra > 0
    /\ decoded.done
    /\ decoded.r = Failed("MissingField")

\* The i64 fields of a field list that have no deserialize_with
PlainOf(n, fs) == {<<n, fs[i].wire>> : i \in {k \in DOMAIN fs : fs[k].ty.k = "i64"}}

\* The i64 fields with no deserialize_with, each under its type and wire name
PlainI64Fields ==
    UNION {PlainOf(n, StructFields(n)) : n \in Structs}
        \cup UNION {UNION {PlainOf(u, EnumVariants(u)[v].fields) :
                             v \in DOMAIN EnumVariants(u)} : u \in Unions}

FaultOnPlain ==
    /\ shape.sample > 0
    /\ shape.fault # NoFault
    /\ Declared(FaultedEntry.k)
    /\ FieldOfKey(FaultedEntry.k).ty.k = "i64"

\* C11: the number-or-quoted-string decoding belongs to the annotated fields
\* alone.  The i64 fields without the annotation are min_A, min_B, expire_at,
\* A, B of PChanState, channel_id of PChanConfig and gas_used of SmcRunResult;
\* a payload that gives one of them as the quoted decimal of its value fails
\* to decode and yields no value, though the payload with the native number
\* decodes, while the quoted decimal in an annotated field decodes.
C11_PlainI64RejectsString ==
    /\ PlainI64Fields =
           {<<"PChanState", "min_A">>, <<"PChanState", "min_B">>,
            <<"PChanState", "expire_at">>, <<"PChanState", "A">>,
            <<"PChanState", "B">>, <<"PChanConfig", "channel_id">>,
            <<"SmcRunResult", "gas_used">>}
    /\ (FaultOnPlain /\ shape.fault[1] = "quote" /\ decoded.done)
           => /\ ~decoded.r.ok
              /\ DOMAIN decoded.r = {"ok", "err"}
              /\ Deserialize(target, Pristine).ok
    /\ (FaultOnFlex /\ shape.fault[1] = "quote" /\ decoded.done)
           => decoded.r.ok

C11_Witness ==
    /\ FaultOnPlain
    /\ shape.fault[1] = "quote"
    /\ target = TEnum("PChanState")
    /\ FaultedEntry.k = "A"
    /\ FaultedEntry.v = N(12345)
    /\ EntryOf(payload.e, "A").v = JStr(format_i64(Num(12345)))
    /\ decoded.done
    /\ ~decoded.r.ok

-----------------------------------------------------------------------------
(* The two sentinels *)

NThreads == 2

Threads == 1..NThreads

BlocksAccountTransactionId(account, lt) == [account |-> account, lt |-> lt]

\* An initializer that reserves the 32 bytes without writing them
NULL_TRANSACTION_ID_reserved == InternalTransactionId(ZeroLt, <<>>)

\* The initializer of lazy_static! { NULL_TRANSACTION_ID }
NULL_TRANSACTION_ID == InternalTransactionId(ZeroLt, Rep(0, HashLen))

\* The initializer of lazy_static! { NULL_BLOCKS_ACCOUNT_TRANSACTION_ID }
NULL_BLOCKS_ACCOUNT_TRANSACTION_ID ==
    BlocksAccountTransactionId(Rep(0, HashLen), ZeroLt)

Nothing == [kind |-> "nothing"]

InitStatics ==
    /\ nullTx = [state |-> "uninit"]
    /\ nullBlk = [state |-> "uninit"]
    /\ pc = [t \in Threads |-> "idle"]
    /\ seen = [t \in Threads |-> Nothing]
    /\ IdleId
    /\ IdleWire

\* Thread t names one of the statics: &*NULL_TRANSACTION_ID or
\* &*NULL_BLOCKS_ACCOUNT_TRANSACTION_ID
Name(t, which) ==
    /\ pc[t] = "idle"
    /\ pc' = [pc EXCEPT ![t] = which]
    /\ UNCHANGED <<nullTx, nullBlk, seen, idVars, wireVars>>

\* Deref of the lazy cell: the first thread runs the initializer under the
\* Once, a thread that finds it running waits, and afterwards every thread
\* gets the shared reference and clones what it points to
DerefTx(t) ==
    /\ pc[t] = "tx"
    /\ nullTx.state # "running"
    /\ IF nullTx.state = "uninit"
       THEN /\ nullTx' = [state |-> "running"]
            /\ pc' = [pc EXCEPT ![t] = "init_tx"]
            /\ UNCHANGED seen
       ELSE /\ seen' = [seen EXCEPT ![t] = nullTx.v]
            /\ pc' = [pc EXCEPT ![t] = "idle"]
            /\ UNCHANGED nullTx
    /\ UNCHANGED <<nullBlk, idVars, wireVars>>

InitializeTx(t) ==
    /\ pc[t] = "init_tx"
    /\ nullTx' = [state |-> "done", v |-> NULL_TRANSACTION_ID]
    /\ pc' = [pc EXCEPT ![t] = "tx"]
    /\ UNCHANGED <<nullBlk, seen, idVars, wireVars>>

DerefBlk(t) ==
    /\ pc[t] = "blk"
    /\ nullBlk.state # "running"
    /\ IF nullBlk.state = "uninit"
       THEN /\ nullBlk' = [state |-> "running"]
            /\ pc' = [pc EXCEPT ![t] = "init_blk"]
            /\ UNCHANGED seen
       ELSE /\ seen' = [seen EXCEPT ![t] = nullBlk.v]
            /\ pc' = [pc EXCEPT ![t] = "idle"]
            /\ UNCHANGED nullBlk
    /\ UNCHANGED <<nullTx, idVars, wireVars>>

InitializeBlk(t) ==
    /\ pc[t] = "init_blk"
    /\ nullBlk' = [state |-> "done", v |-> NULL_BLOCKS_ACCOUNT_TRANSACTION_ID]
    /\ pc' = [pc EXCEPT ![t] = "blk"]
    /\ UNCHANGED <<nullTx, seen, idVars, wireVars>>

\* Thread t changes the clone it owns (the static gives out no &mut)
ChangeClone(t) ==
    /\ pc[t] = "idle"
    /\ seen[t] \in {NULL_TRANSACTION_ID, NULL_BLOCKS_ACCOUNT_TRANSACTION_ID}
    /\ seen' = [seen EXCEPT ![t] = [@ EXCEPT !.lt = I64(FALSE, <<5>>)]]
    /\ UNCHANGED <<nullTx, nullBlk, pc, idVars, wireVars>>

NextStatics ==
    \/ \E t \in DOMAIN pc, which \in {"tx", "blk"} : Name(t, which)
    \/ \E t \in DOMAIN pc : DerefTx(t)
    \/ \E t \in DOMAIN pc : InitializeTx(t)
    \/ \E t \in DOMAIN pc : DerefBlk(t)
    \/ \E t \in DOMAIN pc : InitializeBlk(t)
    \/ \E t \in DOMAIN pc : ChangeClone(t)

SpecStatics == InitStatics /\ [][NextStatics]_vars

\* C10: once initialized, whatever the threads read and do with what they
\* read, NULL_TRANSACTION_ID is (lt 0, hash of 32 zero bytes) and
\* NULL_BLOCKS_ACCOUNT_TRANSACTION_ID is (lt 0, account of 32 zero bytes),
\* and the two are records of different types.
C10_SentinelsConstant ==
    /\ nullTx.state = "done"
          => /\ DOMAIN nullTx.v = {"lt", "hash"}
             /\ nullTx.v.lt = I64(FALSE, <<0>>)
             /\ Len(nullTx.v.hash) = 32
             /\ \A i \in 1..32 : nullTx.v.hash[i] = 0
    /\ nullBlk.state = "done"
          => /\ DOMAIN nullBlk.v = {"lt", "account"}
             /\ nullBlk.v.lt = I64(FALSE, <<0>>)
             /\ Len(nullBlk.v.account) = 32
             /\ \A i \in 1..32 : nullBlk.v.account[i] = 0
    /\ (nullTx.state = "done" /\ nullBlk.state = "done")
          => DOMAIN nullTx.v # DOMAIN nullBlk.v

C10_Witness ==
    /\ nullTx.state = "done"
    /\ nullBlk.state = "done"
    /\ \E t \in DOMAIN pc : seen[t] # Nothing /\ seen[t].lt # ZeroLt
    /\ \E t \in DOMAIN pc : seen[t] = nullTx.v

-----------------------------------------------------------------------------
(* The whole program: one of the three parts at work *)

Init == InitId \/ InitWire \/ InitStatics

Next == NextId \/ NextWire \/ NextStatics

Spec == Init /\ [][Next]_vars

====
